---------------------------- MODULE Spec2Model ----------------------------
(***************************************************************************)
(* Model of the Unmutte backend (src/main.py, src/schemas.py): the         *)
(* intensity heuristic, the reply generator and the HTTP handlers acting   *)
(* on the document store.                                                  *)
(*                                                                         *)
(* Python strings are TLA+ strings (TLC evaluates Len, SubSeq and \o on    *)
(* them).  The two non-ASCII characters of the canned replies, U+2019 and  *)
(* U+2014, are written ' and - : one character each, so lengths agree.     *)
(* An intensity is kept as its numerator over Divisor (score / 8.0 is      *)
(* exact in binary floating point for every integer score), so the float   *)
(* n / 8 is the integer n here.                                            *)
(***************************************************************************)
EXTENDS Integers, Sequences, FiniteSets, TLC

VARIABLES
    store,      \* the document database: collection name -> sequence of documents
    pc,         \* per worker: where its /api/chat request stands
    req,        \* per worker: the ChatRequest it is serving (or served last)
    loc,        \* per worker: the handler's locals (intensity, reply, suggest_break)
    resp,       \* per worker: the HTTP response of its last /api/chat request
    raised,     \* per worker: which create_document calls of that request raised
    last,       \* the HTTP response of the last request to any other endpoint
    created,    \* what was created so far: collection, returned id, request
    nreq,       \* number of requests received so far
    arg,        \* input of the pure functions (SpecIntensity)
    result      \* their result (SpecIntensity)

vars == <<store, pc, req, loc, resp, raised, last, created, nreq, arg, result>>

(***************************************************************************)
(* Bounds of the model.                                                    *)
(***************************************************************************)
MaxRequests == 2
MaxPad == 6
MaxRep == 2

(***************************************************************************)
(* Python values.                                                          *)
(***************************************************************************)
\* Python's None, for the Optional[str] fields (no request of the model
\* sends this string).
None == "<None>"

\* x or d
Or(x, d) == IF x = None \/ x = "" THEN d ELSE x

Min(a, b) == IF a < b THEN a ELSE b
Max(a, b) == IF a > b THEN a ELSE b

UpperChars == "ABCDEFGHIJKLMNOPQRSTUVWXYZ"
LowerChars == "abcdefghijklmnopqrstuvwxyz"

\* str.lower() of one character
LowerChar(c) ==
    IF \E i \in 1..Len(UpperChars) : SubSeq(UpperChars, i, i) = c
    THEN LET i == CHOOSE j \in 1..Len(UpperChars) : SubSeq(UpperChars, j, j) = c
         IN  SubSeq(LowerChars, i, i)
    ELSE c

\* str.lower()
RECURSIVE lower(_)
lower(s) ==
    IF Len(s) = 0 THEN ""
    ELSE IF Len(s) = 1 THEN LowerChar(s)
    ELSE LET h == Len(s) \div 2
         IN  lower(SubSeq(s, 1, h)) \o lower(SubSeq(s, h + 1, Len(s)))

\* s[::-1]
RECURSIVE Reverse(_)
Reverse(s) ==
    IF Len(s) <= 1 THEN s
    ELSE LET h == Len(s) \div 2
         IN  Reverse(SubSeq(s, h + 1, Len(s))) \o Reverse(SubSeq(s, 1, h))

\* w in t
Contains(w, t) ==
    \E i \in 0..(Len(t) - Len(w)) : SubSeq(t, i + 1, i + Len(w)) = w

\* s.startswith(p)
StartsWith(s, p) == Len(s) >= Len(p) /\ SubSeq(s, 1, Len(p)) = p

(***************************************************************************)
(* The responder: canned replies and the intensity heuristic.              *)
(***************************************************************************)
SOFT_RESPONSES_EN == <<
    "I'm here, yaar. Say whatever you need. No judgement, only warmth.",
    "That sounded really heavy. Take your time, I'm listening.",
    "You're not alone. Main hoon na - I'm right here with you." >>

SOFT_RESPONSES_HI == <<
    "Main yahin hoon, yaar. Jo mann mein hai bol do. Koi faisla nahi.",
    "Ye sab kaafi bhaari lag raha hai. Araam se, main sun raha/rahi hoon.",
    "Tum akelay nahi ho. Main saath hoon, bilkul paas." >>

TRIGGER_WORDS == <<
    "hate", "useless", "worthless", "kill", "die", "abuse", "stupid", "idiot",
    "nobody", "broken", "angry", "rage" >>

Divisor == 8
LengthUnit == 120
MaxBonus == 5

\* estimate_intensity with no lower-casing of the text
estimate_intensity_cased(text) ==
    LET score == Cardinality({i \in 1..Len(TRIGGER_WORDS) : Contains(TRIGGER_WORDS[i], text)})
                 + Min(MaxBonus, Max(0, Len(text) \div LengthUnit))
    IN  Max(0, Min(Divisor, score))

\* estimate_intensity: the numerator n of the float n / Divisor it returns.
\* min(1.0, score / 8.0) is Min(Divisor, score) / Divisor.
estimate_intensity(text) ==
    LET t == lower(text)
        score == Cardinality({i \in 1..Len(TRIGGER_WORDS) : Contains(TRIGGER_WORDS[i], t)})
                 + Min(MaxBonus, Max(0, Len(text) \div LengthUnit))
    IN  Max(0, Min(Divisor, score))

BreathSuffix == " Thoda sa saans lein - 4 count in, 4 hold, 4 out. Main yahin hoon."
MoreSuffix == " Bolo aur, jo dil mein hai."

\* generate_reply; estimate_intensity(text) > 0.7 is 10 n > 7 * Divisor
generate_reply(text, lang) ==
    LET base == IF StartsWith(lower(Or(lang, "")), "hi")
                THEN SOFT_RESPONSES_HI ELSE SOFT_RESPONSES_EN
        add  == IF 10 * estimate_intensity(text) > 7 * Divisor
                THEN BreathSuffix ELSE MoreSuffix
    IN  base[(Len(text) % Len(base)) + 1] \o add

(***************************************************************************)
(* The document store (module database): one ordered collection of         *)
(* documents per schema, named by the lower-cased class name.              *)
(***************************************************************************)
Collections == {"message", "post", "reply", "report", "moodentry", "counselorrequest"}

EmptyStore == [c \in Collections |-> << >>]

\* The identifier the store assigns to the next document.
NewId(st) ==
    1 + Len(st["message"]) + Len(st["post"]) + Len(st["reply"]) + Len(st["report"])
      + Len(st["moodentry"]) + Len(st["counselorrequest"])

\* create_document(collection_name, data) when it does not raise: the fields
\* are inserted as given, under a fresh identifier, which is returned.
create_document(st, coll, data) ==
    [st EXCEPT ![coll] = Append(@, [_id |-> NewId(st)] @@ data)]

Matches(d, filter) ==
    \A k \in DOMAIN filter : k \in DOMAIN d /\ d[k] = filter[k]

\* get_documents(collection_name, filter, limit) when it does not raise: the
\* first `limit` documents of the collection that equal the filter on its fields.
get_documents(st, coll, filter, limit) ==
    LET m == SelectSeq(st[coll], LAMBDA d : Matches(d, filter))
    IN  IF limit > 0 THEN SubSeq(m, 1, Min(limit, Len(m))) ELSE m

(***************************************************************************)
(* Requests the model sends.                                               *)
(***************************************************************************)
Workers == {1, 2}
Sessions == {"s1", "s2"}

SixWords == "hate useless worthless kill die abuse"
SevenWords == "Hate useless worthless kill die abuse STUPID"
AllWords == "hate useless worthless kill die abuse stupid idiot nobody broken angry rage"

\* texts of intensity 0, 6/8, 7/8 and 1
ChatTexts == {"", SixWords, SevenWords, AllWords}
\* a language tag that selects the Hindi replies, and null, which takes
\* the "en" default
ChatLangs == {"Hi-IN", None}

\* ChatRequest, validated
ChatRequests ==
    [session_id : Sessions, text : ChatTexts, lang : ChatLangs]

\* a request goes to the first worker that is not serving one
Free(w) ==
    /\ pc[w] \in {"idle", "done"}
    /\ \A v \in Workers : v < w => pc[v] = "user_stored"

NoResponse == [status |-> 0]
NoLocals == [intensity |-> 0, reply |-> "", suggest_break |-> FALSE]
NoRequest == [session_id |-> "", text |-> "", lang |-> None]

(***************************************************************************)
(* POST /api/chat.  The handler's two store calls are two steps, so that   *)
(* requests served by different workers interleave at the store.           *)
(***************************************************************************)
\* "enc::" + s[::-1], with the reversal left out
encrypt_plain(s) == "enc::" \o s

\* "enc::" + s[::-1]
encrypt(s) == "enc::" \o Reverse(s)

\* intensity >= 0.8 taken as the reply generator's intensity > 0.7
suggest_break_above_07(intensity) == 10 * intensity > 7 * Divisor

\* intensity >= 0.8
suggest_break_of(intensity) == 10 * intensity >= 8 * Divisor

ChatResponse(reply, intensity, lang, suggest_break) ==
    [status |-> 200, reply |-> reply, intensity |-> intensity, lang |-> lang,
     suggest_break |-> suggest_break]

\* what chat computes before it touches the store
chat_locals(r) ==
    LET intensity == estimate_intensity(r.text)
    IN  [intensity |-> intensity,
         reply |-> generate_reply(r.text, Or(r.lang, "en")),
         suggest_break |-> suggest_break_of(intensity)]

\* chat_locals, tabulated over the requests of the model (evaluated once, not
\* at every step)
LocalsOf == [r \in ChatRequests |-> chat_locals(r)] @@ << >>

\* encrypt, tabulated over what the requests of the model make chat encrypt
Encrypted ==
    [s \in ChatTexts \cup {LocalsOf[r].reply : r \in ChatRequests} |-> encrypt(s)] @@ << >>

\* the fields of a message document
message_doc(r, role, content, intensity) ==
    [session_id |-> r.session_id, role |-> role, text |-> "",
     ciphertext |-> Encrypted[content], intensity |-> intensity, lang |-> r.lang]

chat_return(w, r, l) ==
    /\ pc' = [pc EXCEPT ![w] = "done"]
    /\ resp' = [resp EXCEPT ![w] = ChatResponse(l.reply, l.intensity, Or(r.lang, "en"), l.suggest_break)]

\* the except clause, re-raising: the request fails
chat_except_reraise(w, r) ==
    /\ raised' = [raised EXCEPT ![w] = {1}]
    /\ pc' = [pc EXCEPT ![w] = "done"]
    /\ resp' = [resp EXCEPT ![w] = [status |-> 500]]

\* the except clause around the first call only: the second call still runs
chat_except_first_only(w, r) ==
    /\ raised' = [raised EXCEPT ![w] = {1}]
    /\ pc' = [pc EXCEPT ![w] = "user_stored"]
    /\ resp' = [resp EXCEPT ![w] = NoResponse]

\* the first create_document call raised: the except clause passes, the
\* second call is skipped and the response is returned
chat_except(w, r) ==
    /\ raised' = [raised EXCEPT ![w] = {1}]
    /\ chat_return(w, r, LocalsOf[r])

\* chat, up to and including its first create_document call: the request is
\* taken, intensity, reply and suggest_break are computed, and the user
\* message is written
chat_first(w, r, ok) ==
    /\ Free(w)
    /\ nreq < MaxRequests
    /\ nreq' = nreq + 1
    /\ req' = [req EXCEPT ![w] = r]
    /\ loc' = [loc EXCEPT ![w] = LocalsOf[r]]
    /\ IF ok
       THEN /\ store' = create_document(store, "message",
                            message_doc(r, "user", r.text, LocalsOf[r].intensity))
            /\ created' = created \cup
                   {[coll |-> "message", id |-> NewId(store), role |-> "user", req |-> r]}
            /\ raised' = [raised EXCEPT ![w] = {}]
            /\ pc' = [pc EXCEPT ![w] = "user_stored"]
            /\ resp' = [resp EXCEPT ![w] = NoResponse]
       ELSE /\ chat_except(w, r)
            /\ UNCHANGED <<store, created>>
    /\ UNCHANGED <<last, arg, result>>

\* chat, from its second create_document call to the return
chat_second(w, ok) ==
    /\ pc[w] = "user_stored"
    /\ IF ok
       THEN /\ store' = create_document(store, "message",
                            message_doc(req[w], "assistant", loc[w].reply, loc[w].intensity))
            /\ created' = created \cup
                   {[coll |-> "message", id |-> NewId(store), role |-> "assistant", req |-> req[w]]}
            /\ UNCHANGED raised
       ELSE /\ raised' = [raised EXCEPT ![w] = @ \cup {2}]
            /\ UNCHANGED <<store, created>>
    /\ chat_return(w, req[w], loc[w])
    /\ UNCHANGED <<req, loc, last, nreq, arg, result>>

(***************************************************************************)
(* The other endpoints: one store call each, so one step each.  `ok` is    *)
(* whether the store call returns (TRUE) or raises (FALSE); an exception   *)
(* that escapes a handler is answered with status 500.                     *)
(***************************************************************************)
Failure(endpoint, request) ==
    [endpoint |-> endpoint, of |-> request, status |-> 500, raised |-> TRUE,
     body |-> [detail |-> "Internal Server Error"]]

Success(endpoint, request, body) ==
    [endpoint |-> endpoint, of |-> request, status |-> 200, raised |-> FALSE, body |-> body]

\* the framework's answer to a body that fails the request model
Rejected(endpoint, request) ==
    [endpoint |-> endpoint, of |-> request, status |-> 422, raised |-> FALSE,
     body |-> [detail |-> "validation error"]]

NoLast == [endpoint |-> "", of |-> "", status |-> 0, raised |-> FALSE, body |-> [detail |-> ""]]

Received ==
    /\ nreq < MaxRequests
    /\ nreq' = nreq + 1
    /\ UNCHANGED <<pc, req, loc, resp, raised, arg, result>>

FeedLimit == 50
MoodLimit == 100

\* randint(100, 999) and randint(1, 9999): the ends of each range
AliasNumbers == {100, 999}
AvatarSeeds == {1, 9999}

\* make_alias
make_alias(n) == "Ally-" \o ToString(n)

\* the fields create_post stores, with the status left to the Post schema's default
post_doc_published(data, n, seed) ==
    [alias |-> make_alias(n), avatar_seed |-> ToString(seed), content |-> data.content,
     status |-> "published", reports |-> 0]

\* the fields create_post stores
post_doc(data, n, seed) ==
    [alias |-> make_alias(n), avatar_seed |-> ToString(seed), content |-> data.content,
     status |-> "pending", reports |-> 0]

\* POST /api/community/post
create_post(data, n, seed, ok) ==
    /\ Received
    /\ IF ok
       THEN /\ store' = create_document(store, "post", post_doc(data, n, seed))
            /\ created' = created \cup {[coll |-> "post", id |-> NewId(store), req |-> data]}
            /\ last' = Success("create_post", data, [id |-> NewId(store), status |-> "pending"])
       ELSE /\ last' = Failure("create_post", data)
            /\ UNCHANGED <<store, created>>

\* GET /api/community/feed
feed(ok) ==
    /\ Received
    /\ last' = IF ok
               THEN Success("feed", "", [items |-> get_documents(store, "post", [status |-> "published"], FeedLimit)])
               ELSE Failure("feed", "")
    /\ UNCHANGED <<store, created>>

\* POST /api/community/reply
add_reply(data, n, ok) ==
    /\ Received
    /\ IF ok
       THEN /\ store' = create_document(store, "reply",
                            [post_id |-> data.post_id, alias |-> make_alias(n),
                             content |-> data.content, status |-> "pending"])
            /\ created' = created \cup {[coll |-> "reply", id |-> NewId(store), req |-> data]}
            /\ last' = Success("add_reply", data, [id |-> NewId(store), status |-> "pending"])
       ELSE /\ last' = Failure("add_reply", data)
            /\ UNCHANGED <<store, created>>

\* POST /api/community/report; r.model_dump() is the three fields of ReportReq
report_item(r, ok) ==
    /\ Received
    /\ IF ok
       THEN /\ store' = create_document(store, "report", r)
            /\ created' = created \cup {[coll |-> "report", id |-> NewId(store), req |-> r]}
            /\ last' = Success("report_item", r, [id |-> NewId(store), queued |-> TRUE])
       ELSE /\ last' = Failure("report_item", r)
            /\ UNCHANGED <<store, created>>

\* MoodReq: session_id: str and mood: int are required, note is optional
MoodReqValid(body) == {"session_id", "mood"} \subseteq DOMAIN body

\* MoodReq(**body): note defaults to None
MoodReq(body) ==
    [session_id |-> body.session_id, mood |-> body.mood,
     note |-> IF "note" \in DOMAIN body THEN body.note ELSE None]

\* add_mood with the store's exception swallowed
add_mood_swallow(body, ok) ==
    /\ Received
    /\ IF ~MoodReqValid(body)
       THEN /\ last' = Rejected("add_mood", body)
            /\ UNCHANGED <<store, created>>
       ELSE IF ok
       THEN /\ store' = create_document(store, "moodentry", MoodReq(body))
            /\ created' = created \cup {[coll |-> "moodentry", id |-> NewId(store), req |-> MoodReq(body)]}
            /\ last' = Success("add_mood", body, [id |-> NewId(store)])
       ELSE /\ last' = [Success("add_mood", body, [id |-> 0]) EXCEPT !.raised = TRUE]
            /\ UNCHANGED <<store, created>>

\* POST /api/wellness/mood; m.model_dump() is the three fields of MoodReq
add_mood(body, ok) ==
    /\ Received
    /\ IF ~MoodReqValid(body)
       THEN /\ last' = Rejected("add_mood", body)
            /\ UNCHANGED <<store, created>>
       ELSE IF ok
       THEN /\ store' = create_document(store, "moodentry", MoodReq(body))
            /\ created' = created \cup {[coll |-> "moodentry", id |-> NewId(store), req |-> MoodReq(body)]}
            /\ last' = Success("add_mood", body, [id |-> NewId(store)])
       ELSE /\ last' = Failure("add_mood", body)
            /\ UNCHANGED <<store, created>>

\* get_mood with the filter left out
get_mood_unfiltered(session_id, ok) ==
    /\ Received
    /\ last' = IF ok
               THEN Success("get_mood", session_id,
                            [items |-> get_documents(store, "moodentry", << >>, MoodLimit)])
               ELSE Failure("get_mood", session_id)
    /\ UNCHANGED <<store, created>>

\* GET /api/wellness/mood/{session_id}
get_mood(session_id, ok) ==
    /\ Received
    /\ last' = IF ok
               THEN Success("get_mood", session_id,
                            [items |-> get_documents(store, "moodentry",
                                                     [session_id |-> session_id], MoodLimit)])
               ELSE Failure("get_mood", session_id)
    /\ UNCHANGED <<store, created>>

\* POST /api/premium/request; req.model_dump() is the two fields of CounselorReq
request_listener(r, ok) ==
    /\ Received
    /\ IF ok
       THEN /\ store' = create_document(store, "counselorrequest", r)
            /\ created' = created \cup {[coll |-> "counselorrequest", id |-> NewId(store), req |-> r]}
            /\ last' = Success("request_listener", r, [id |-> NewId(store), status |-> "queued"])
       ELSE /\ last' = Failure("request_listener", r)
            /\ UNCHANGED <<store, created>>

(***************************************************************************)
(* Request bodies the model sends to the other endpoints.                  *)
(***************************************************************************)
NewPosts == [content : {"hello"}]
NewReplies == [post_id : {"1", "no-such-post"}, content : {"hugs"}]
ReportReqs == [target_type : {"post", "reply"}, target_id : {"1"}, reason : {None}]
Moods == {0, 1, 3, 5, 6}
\* bodies with every field, and one without the required mood
MoodBodies == [session_id : Sessions, mood : Moods, note : {None}]
              \cup [session_id : {"s1"}, mood : {3}]
              \cup [session_id : {"s1"}]
CounselorReqs == [session_id : Sessions, topic : {None, "grief"}]

(***************************************************************************)
(* The API: the store starts empty, every worker idle.                     *)
(***************************************************************************)
InitWith(st) ==
    /\ store = st
    /\ pc = [w \in Workers |-> "idle"]
    /\ req = [w \in Workers |-> NoRequest]
    /\ loc = [w \in Workers |-> NoLocals]
    /\ resp = [w \in Workers |-> NoResponse]
    /\ raised = [w \in Workers |-> {}]
    /\ last = NoLast
    /\ created = {}
    /\ nreq = 0
    /\ arg = [lo |-> 1, hi |-> 0, rep |-> 1, upper |-> FALSE, sep |-> " ", pad |-> 0]
    /\ result = [done |-> FALSE, intensity |-> 0]

Init == InitWith(EmptyStore)

Chat ==
    \/ \E w \in Workers, r \in ChatRequests, ok \in BOOLEAN : chat_first(w, r, ok)
    \/ \E w \in Workers, ok \in BOOLEAN : chat_second(w, ok)

Community ==
    \/ \E data \in NewPosts, n \in AliasNumbers, seed \in AvatarSeeds, ok \in BOOLEAN :
           create_post(data, n, seed, ok)
    \/ \E ok \in BOOLEAN : feed(ok)
    \/ \E data \in NewReplies, n \in AliasNumbers, ok \in BOOLEAN : add_reply(data, n, ok)
    \/ \E r \in ReportReqs, ok \in BOOLEAN : report_item(r, ok)

Wellness ==
    \/ \E body \in MoodBodies, ok \in BOOLEAN : add_mood(body, ok)
    \/ \E s \in Sessions, ok \in BOOLEAN : get_mood(s, ok)

Premium ==
    \E r \in CounselorReqs, ok \in BOOLEAN : request_listener(r, ok)

Next == Chat \/ Community \/ Wellness \/ Premium

Spec == Init /\ [][Next]_vars

\* The handlers share nothing but the store, and chat alone writes the
\* message collection, which no other handler reads: the chat requests and
\* the requests to the other endpoints are explored apart.
SpecChat == Init /\ [][Chat]_vars

SpecOthers == Init /\ [][Community \/ Wellness \/ Premium]_vars

(***************************************************************************)
(* The community endpoints on a store that already holds posts: one        *)
(* pending, one removed, the others published by the moderators.           *)
(***************************************************************************)
SeedPost(i) ==
    [_id |-> i, alias |-> make_alias(100 + i), avatar_seed |-> ToString(i),
     content |-> "earlier",
     status |-> IF i = 1 THEN "pending" ELSE IF i = 2 THEN "removed" ELSE "published",
     reports |-> 0]

SeedPosts(n) == [EmptyStore EXCEPT !["post"] = [i \in 1..n |-> SeedPost(i)]]

\* none, or 2 unpublished and FeedLimit - 1, FeedLimit or FeedLimit + 1 published
SeedPostCounts == {0, FeedLimit + 1, FeedLimit + 2, FeedLimit + 3}

InitCommunity == \E n \in SeedPostCounts : InitWith(SeedPosts(n))

SpecCommunity == InitCommunity /\ [][Community]_vars

(***************************************************************************)
(* The mood tracker on a store that already holds entries: two of session  *)
(* s2, the others of session s1.                                           *)
(***************************************************************************)
SeedMood(i) ==
    [_id |-> i, session_id |-> IF i <= 2 THEN "s2" ELSE "s1", mood |-> (i % 5) + 1,
     note |-> None]

SeedMoods(n) == [EmptyStore EXCEPT !["moodentry"] = [i \in 1..n |-> SeedMood(i)]]

SeedMoodCounts == {0, MoodLimit + 1, MoodLimit + 2, MoodLimit + 3}

InitWellness == \E n \in SeedMoodCounts : InitWith(SeedMoods(n))

SpecWellness == InitWellness /\ [][Wellness]_vars

(***************************************************************************)
(* The intensity heuristic on generated texts: the trigger words lo..hi,   *)
(* each rep times, in lower or upper case, joined by sep, then pad blocks  *)
(* of PadUnit.                                                             *)
(***************************************************************************)
UpperChar(c) ==
    IF \E i \in 1..Len(LowerChars) : SubSeq(LowerChars, i, i) = c
    THEN LET i == CHOOSE j \in 1..Len(LowerChars) : SubSeq(LowerChars, j, j) = c
         IN  SubSeq(UpperChars, i, i)
    ELSE c

RECURSIVE Upper(_)
Upper(s) ==
    IF Len(s) = 0 THEN ""
    ELSE IF Len(s) = 1 THEN UpperChar(s)
    ELSE LET h == Len(s) \div 2
         IN  Upper(SubSeq(s, 1, h)) \o Upper(SubSeq(s, h + 1, Len(s)))

RECURSIVE Repeat(_, _, _)
Repeat(s, sep, n) ==
    IF n = 0 THEN "" ELSE IF n = 1 THEN s ELSE s \o sep \o Repeat(s, sep, n - 1)

RECURSIVE JoinWords(_, _, _, _)
JoinWords(lo, hi, rep, sep) ==
    IF lo > hi THEN ""
    ELSE IF lo = hi THEN Repeat(TRIGGER_WORDS[lo], sep, rep)
    ELSE Repeat(TRIGGER_WORDS[lo], sep, rep) \o sep \o JoinWords(lo + 1, hi, rep, sep)

PadUnit == "........................................................................................................................"

TextOf(a) ==
    LET words == JoinWords(a.lo, a.hi, a.rep, a.sep)
    IN  (IF a.upper THEN Upper(words) ELSE words) \o Repeat(PadUnit, "", a.pad)

Args ==
    {a \in [lo : 1..Len(TRIGGER_WORDS), hi : 0..Len(TRIGGER_WORDS), rep : 1..MaxRep,
            upper : BOOLEAN, sep : {" ", "x"}, pad : 0..MaxPad] :
        a.hi >= a.lo \/ (a.lo = 1 /\ a.hi = 0 /\ a.rep = 1 /\ ~a.upper /\ a.sep = " ")}

InitIntensity ==
    /\ store = EmptyStore
    /\ pc = [w \in Workers |-> "idle"]
    /\ req = [w \in Workers |-> NoRequest]
    /\ loc = [w \in Workers |-> NoLocals]
    /\ resp = [w \in Workers |-> NoResponse]
    /\ raised = [w \in Workers |-> {}]
    /\ last = NoLast
    /\ created = {}
    /\ nreq = 0
    /\ arg \in Args
    /\ result = [done |-> FALSE, intensity |-> 0]

Estimate ==
    /\ ~result.done
    /\ result' = [done |-> TRUE, intensity |-> estimate_intensity(TextOf(arg))]
    /\ UNCHANGED <<store, pc, req, loc, resp, raised, last, created, nreq, arg>>

SpecIntensity == InitIntensity /\ [][Estimate]_vars

(***************************************************************************)
(* Properties.                                                             *)
(***************************************************************************)
MessagesOf(role, s) ==
    {i \in DOMAIN store["message"] :
        store["message"][i].role = role /\ store["message"][i].session_id = s}

\* every reply generate_reply can return
ValidReplies ==
    {SOFT_RESPONSES_EN[i] \o add : i \in 1..3, add \in {BreathSuffix, MoreSuffix}}
    \cup {SOFT_RESPONSES_HI[i] \o add : i \in 1..3, add \in {BreathSuffix, MoreSuffix}}

\* C1: every finished /api/chat request was answered with status 200 and a
\* valid reply, intensity, lang and suggest_break, and the answer is the one
\* computed from the request alone (the answer given when both
\* create_document calls succeed), whichever of the calls raised.
C1_ChatAnswersWhateverTheStoreDoes ==
    \A w \in Workers :
        pc[w] = "done" =>
            /\ resp[w].status = 200
            /\ resp[w].reply \in ValidReplies
            /\ resp[w].intensity \in 0..Divisor
            /\ resp[w].lang \in {"en", "Hi-IN"}
            /\ resp[w].suggest_break \in BOOLEAN
            /\ resp[w] = ChatResponse(LocalsOf[req[w]].reply, LocalsOf[req[w]].intensity,
                                      Or(req[w].lang, "en"), LocalsOf[req[w]].suggest_break)

\* C1 witness: one request answered after its first store call raised, and
\* another answered after its second store call raised.
C1_Witness ==
    /\ pc[1] = "done" /\ raised[1] = {2} /\ resp[1].status = 200
    /\ pc[2] = "done" /\ raised[2] = {1} /\ resp[2].status = 200

\* C2: every moodentry document in the store has a mood in 1..5 (a request
\* with mood 0 or 6 is rejected and creates nothing).
C2_StoredMoodsInRange ==
    \A i \in DOMAIN store["moodentry"] : store["moodentry"][i].mood \in 1..5

\* C3: a post created through POST /api/community/post is stored with status
\* "pending" and reports 0 and is in no feed; the feed holds at most 50
\* posts, all of status "published".
C3_CreatedPostsPendingAndNotInFeed ==
    /\ \A c \in created :
           c.coll = "post" =>
               \E i \in DOMAIN store["post"] :
                   /\ store["post"][i]._id = c.id
                   /\ store["post"][i].content = c.req.content
                   /\ store["post"][i].status = "pending"
                   /\ store["post"][i].reports = 0
    /\ (last.endpoint = "feed" /\ last.status = 200) =>
           /\ Len(last.body.items) <= 50
           /\ \A j \in DOMAIN last.body.items :
                  /\ last.body.items[j].status = "published"
                  /\ \A c \in created : c.coll = "post" => c.id # last.body.items[j]._id

\* C3 witness: a feed of 50 posts read after a post was created, from a store
\* that holds more than 50 published posts.
C3_Witness ==
    /\ last.endpoint = "feed" /\ last.status = 200
    /\ Len(last.body.items) = 50
    /\ \E c \in created : c.coll = "post"
    /\ Cardinality({i \in DOMAIN store["post"] : store["post"][i].status = "published"}) > 50

\* C4: a request to an endpoint other than /api/chat whose store call raises
\* fails (no success status, no id and no items in its body) and leaves the
\* store as it was.
C4_StoreFailureFailsTheRequest ==
    [][ (nreq' = nreq + 1 /\ last'.raised) =>
            /\ store' = store
            /\ last'.status >= 500
            /\ "id" \notin DOMAIN last'.body
            /\ "items" \notin DOMAIN last'.body ]_vars

\* C4 witness: a mood request failed by the store after an earlier one was stored.
C4_Witness ==
    /\ last.endpoint = "add_mood" /\ last.raised /\ last.status = 500
    /\ Len(store["moodentry"]) = 1

\* C5: every counselorrequest document in the store carries status "queued".
C5_StoredRequestsQueued ==
    \A i \in DOMAIN store["counselorrequest"] :
        /\ "status" \in DOMAIN store["counselorrequest"][i]
        /\ store["counselorrequest"][i].status = "queued"

\* "enc::" followed by the reversed string, tabulated
Expected ==
    [s \in ChatTexts \cup ValidReplies |-> "enc::" \o Reverse(s)] @@ << >>

\* C6: every message document has an empty text, an intensity in [0,1] and as
\* ciphertext "enc::" followed by the reversed request text (role "user") or
\* the reversed reply generated for that request (role "assistant").
C6_NoPlaintextStored ==
    \A i \in DOMAIN store["message"] :
        LET d == store["message"][i]
        IN  /\ d.text = ""
            /\ d.intensity \in 0..Divisor
            /\ \E c \in created :
                   /\ c.coll = "message" /\ c.id = d._id /\ c.role = d.role
                   /\ d.session_id = c.req.session_id
                   /\ d.ciphertext =
                          Expected[IF d.role = "user" THEN c.req.text
                                   ELSE LocalsOf[c.req].reply]

\* C6 witness: the user message and the assistant message of a request with
\* a non-empty text are both stored.
C6_Witness ==
    \E i, j \in DOMAIN store["message"] :
        /\ store["message"][i].role = "user"
        /\ store["message"][i].ciphertext = "enc::" \o Reverse(SevenWords)
        /\ store["message"][j].role = "assistant"
        /\ store["message"][j].session_id = store["message"][i].session_id

\* the number of (possibly overlapping) occurrences of trigger words in t
Occurrences(t) ==
    Cardinality({p \in (1..Len(TRIGGER_WORDS)) \X (1..Len(t)) :
                    /\ p[2] + Len(TRIGGER_WORDS[p[1]]) - 1 <= Len(t)
                    /\ SubSeq(t, p[2], p[2] + Len(TRIGGER_WORDS[p[1]]) - 1) = TRIGGER_WORDS[p[1]]})

\* C7 as stated: the intensity is clamp((k + min(5, L // 120)) / 8, 0, 1) with
\* k the number of case-insensitive substring occurrences of trigger words.
C7_IntensityCountsOccurrences ==
    result.done =>
        result.intensity =
            Max(0, Min(8, Occurrences(lower(TextOf(arg))) + Min(5, Len(TextOf(arg)) \div 120)))

\* C7 as amended: the intensity of "" is 0, and the intensity of a text of
\* length L is clamp((k + min(5, L // 120)) / 8, 0, 1) with k the number of
\* trigger words that occur in it at least once, in any case (the generated
\* text holds the words lo..hi and no other); it is always within [0,1].
C7_IntensityCountsWordsPresent ==
    result.done =>
        /\ result.intensity \in 0..8
        /\ result.intensity =
               Max(0, Min(8, (arg.hi - arg.lo + 1) + Min(5, Len(TextOf(arg)) \div 120)))
        /\ TextOf(arg) = "" => result.intensity = 0

\* C7 witness: the intensity of a text with every word twice, in upper case,
\* long enough for a length bonus, and below the clamp.
C7_Witness ==
    /\ result.done
    /\ arg.rep = 2 /\ arg.upper /\ arg.hi > arg.lo /\ arg.pad = 1
    /\ result.intensity = 4

\* C8: in every /api/chat response suggest_break is true exactly when the
\* intensity is at least 0.8, that is 7/8 or 1.
C8_SuggestBreakIffIntense ==
    \A w \in Workers :
        pc[w] = "done" => (resp[w].suggest_break <=> resp[w].intensity \in {7, 8})

\* C8 witness: a response of intensity 6/8 without a break beside one of
\* intensity 7/8 with a break.
C8_Witness ==
    /\ pc[1] = "done" /\ pc[2] = "done"
    /\ resp[1].intensity = 6 /\ ~resp[1].suggest_break
    /\ resp[2].intensity = 7 /\ resp[2].suggest_break

\* C9: GET /api/wellness/mood/{s} returns at most 100 entries, all of session
\* s, and when the store holds fewer than 100 entries of s it returns every
\* one of them, each created entry with the mood and session_id posted.
C9_MoodReadBack ==
    (last.endpoint = "get_mood" /\ last.status = 200) =>
        LET s == last.of
            items == last.body.items
            mine == {i \in DOMAIN store["moodentry"] : store["moodentry"][i].session_id = s}
        IN  /\ Len(items) <= 100
            /\ \A j \in DOMAIN items : items[j].session_id = s
            /\ Cardinality(mine) < 100 =>
                   /\ \A i \in mine : \E j \in DOMAIN items : items[j] = store["moodentry"][i]
                   /\ \A c \in created :
                          (c.coll = "moodentry" /\ c.req.session_id = s) =>
                              \E j \in DOMAIN items :
                                  /\ items[j]._id = c.id
                                  /\ items[j].mood = c.req.mood
                                  /\ items[j].session_id = s

\* C9 witness: mood 3 posted for "s1", then "s1" read: one entry, mood 3.
C9_Witness ==
    /\ last.endpoint = "get_mood" /\ last.status = 200 /\ last.of = "s1"
    /\ Len(last.body.items) = 1
    /\ last.body.items[1].mood = 3
    /\ last.body.items[1].session_id = "s1"
    /\ \E c \in created : c.coll = "moodentry" /\ c.id = last.body.items[1]._id

\* C10: no session has more assistant messages than user messages stored.
C10_AssistantOnlyAfterUser ==
    \A s \in Sessions :
        Cardinality(MessagesOf("assistant", s)) <= Cardinality(MessagesOf("user", s))

\* C10 witness: every request is finished and a session has a user message
\* without its assistant message, the second store call having raised.
C10_Witness ==
    /\ \A w \in Workers : pc[w] = "done"
    /\ \E w \in Workers : 2 \in raised[w]
    /\ \E s \in Sessions :
           Cardinality(MessagesOf("user", s)) > Cardinality(MessagesOf("assistant", s))

=============================================================================
